---- MODULE Spec2Model ----
(***************************************************************************)
(* Model of src/widget/style.cpp (qTox): the stylesheet template resolver, *)
(* the stylesheet cache, the image-existence cache, the colour palette and *)
(* the derivation of the four theme accent colours.                        *)
(*                                                                         *)
(* Text (QString) is a sequence of atoms <<kind, payload>>:                *)
(*   <<"lit", s>>   a piece of template text: "@", a run of word           *)
(*                  characters (a member of WordPieces) or a separator     *)
(*   <<"img", n>>   the phrase @getImagePath(n)                            *)
(*   <<"hex", rgb>> QColor::name(), "#rrggbb"                              *)
(*   <<"font", f>>  qssifyFont(), starts with a digit                      *)
(*   <<"base", f>>  the @baseFont value, starts with a quote               *)
(*   <<"path", p>>  an absolute path substituted for an image phrase       *)
(* A path is <<folder, name>>, the concatenation folder + name.            *)
(***************************************************************************)
EXTENDS Integers, Sequences, FiniteSets, TLC

VARIABLES
    palette,              \* static QColor palette[]
    dict,                 \* static QMap<QString, QString> dict
    stylesheetsCache,     \* Style::stylesheetsCache
    existingImagesCache,  \* static QStringList existingImagesCache
    themeInstalled,       \* QStandardPaths::locate finds themes/default
    builtinOpens,         \* QFile(":themes/default/").open() succeeds
    themeFiles,           \* files present in the installed theme folder
    last,                 \* the last call: arguments, result, diagnostics
    sinceSet,             \* getStylesheet results since the last setThemeColor
    calls                 \* number of calls made so far

vars == <<palette, dict, stylesheetsCache, existingImagesCache, themeInstalled,
          builtinOpens, themeFiles, last, sinceSet, calls>>

----------------------------------------------------------------------------
(* Bounds of the model *)

\* longest sequence of calls explored
MaxCalls == 3

----------------------------------------------------------------------------
(* Colours *)

QColorRgb(r, g, b) == [valid |-> TRUE, r |-> r, g |-> g, b |-> b]

\* QColor(): the invalid colour
QColorInvalid == [valid |-> FALSE, r |-> 0, g |-> 0, b |-> 0]

Min(a, b) == IF a < b THEN a ELSE b

\* QColor::darker(f): the HSV value is scaled by 100/f, hue and saturation
\* are kept, i.e. every channel is scaled by 100/f
darker(c, f) ==
    QColorRgb((c.r * 100) \div f, (c.g * 100) \div f, (c.b * 100) \div f)

\* QColor::lighter(f): the HSV value is scaled by f/100 and saturates
lighter(c, f) ==
    QColorRgb(Min(255, (c.r * f) \div 100), Min(255, (c.g * f) \div 100),
              Min(255, (c.b * f) \div 100))

\* QColor::name(): "#rrggbb"
name(c) == <<"hex", <<c.r, c.g, c.b>>>>

\* enum Style::ColorPalette, in the order of the palette array
StaticColors == {"Green", "Yellow", "Red", "Black", "DarkGrey", "MediumGrey",
                 "MediumGreyLight", "LightGrey", "White", "Orange"}
AccentColors == {"ThemeDark", "ThemeMediumDark", "ThemeMedium", "ThemeLight"}
ColorPalette == StaticColors \cup AccentColors

\* the fixed defaults of the four accent slots
DefaultAccents ==
    [e \in AccentColors |->
        CASE e = "ThemeDark" -> QColorRgb(28, 28, 28)        \* #1c1c1c
          [] e = "ThemeMediumDark" -> QColorRgb(42, 42, 42)  \* #2a2a2a
          [] e = "ThemeMedium" -> QColorRgb(65, 65, 65)      \* #414141
          [] e = "ThemeLight" -> QColorRgb(78, 78, 78)]      \* #4e4e4e

paletteInit ==
    [e \in ColorPalette |->
        CASE e = "Green" -> QColorRgb(107, 194, 96)          \* #6bc260
          [] e = "Yellow" -> QColorRgb(206, 191, 68)         \* #cebf44
          [] e = "Red" -> QColorRgb(200, 78, 78)             \* #c84e4e
          [] e = "Black" -> QColorRgb(0, 0, 0)               \* #000000
          [] e = "DarkGrey" -> QColorRgb(28, 28, 28)         \* #1c1c1c
          [] e = "MediumGrey" -> QColorRgb(65, 65, 65)       \* #414141
          [] e = "MediumGreyLight" -> lighter(QColorRgb(65, 65, 65), 120)
          [] e = "LightGrey" -> QColorRgb(209, 209, 209)     \* #d1d1d1
          [] e = "White" -> QColorRgb(255, 255, 255)         \* #ffffff
          [] e = "Orange" -> QColorRgb(255, 119, 0)          \* #ff7700
          [] OTHER -> DefaultAccents[e]]

\* Style::themeColorColors, indices 0..4
themeColorColors ==
    <<QColorInvalid,
      QColorRgb(0, 74, 164),      \* #004aa4
      QColorRgb(151, 186, 0),     \* #97ba00
      QColorRgb(194, 55, 22),     \* #c23716
      QColorRgb(70, 23, 181)>>    \* #4617b5

----------------------------------------------------------------------------
(* Fonts *)

\* QFont::Weight
Light == 25
Normal == 50
Bold == 75

\* QFontInfo(QFont()).pixelSize(), the detected system default
defSize == 12

\* family of a default-constructed QFont
DefaultFamily == "Sans"

appFont(pixelSize, weight) ==
    [pixelSize |-> pixelSize, weight |-> weight, family |-> DefaultFamily]

\* "%1 %2px \"%3\"": weight * 8, pixel size, family
qssifyFont(font) == <<"font", <<font.weight * 8, font.pixelSize, font.family>>>>

FontNames == {"ExtraBig", "Big", "BigBold", "Medium", "MediumBold", "Small",
              "SmallLight"}

getFont(font) ==
    CASE font = "ExtraBig" -> appFont(defSize + 3, Bold)
      [] font = "Big" -> appFont(defSize + 1, Normal)
      [] font = "BigBold" -> appFont(defSize + 1, Bold)
      [] font = "Medium" -> appFont(defSize, Normal)
      [] font = "MediumBold" -> appFont(defSize, Bold)
      [] font = "Small" -> appFont(defSize - 1, Normal)
      [] font = "SmallLight" -> appFont(defSize - 1, Light)

\* "'%1' %2px": family and QFontInfo(baseFont).pixelSize()
baseFontValue(baseFont) == <<"base", <<baseFont.family, baseFont.pixelSize>>>>

----------------------------------------------------------------------------
(* Text *)

Lit(s) == <<"lit", s>>

\* runs of word characters ([A-Za-z0-9_]) that templates are written with
WordPieces == {"green", "yellow", "red", "black", "dark", "light", "medium",
               "white", "orange", "theme", "base", "extra", "big", "small",
               "Grey", "Light", "Dark", "Medium", "Font", "Big", "Bold",
               "color", "x"}

\* does the atom begin with a word character
StartsWithWordChar(a) ==
    \/ a[1] = "lit" /\ a[2] \in WordPieces
    \/ a[1] = "font"

\* the token strings of the dictionary, as text
KeyText(key) ==
    CASE key = "@green" -> <<Lit("@"), Lit("green")>>
      [] key = "@yellow" -> <<Lit("@"), Lit("yellow")>>
      [] key = "@red" -> <<Lit("@"), Lit("red")>>
      [] key = "@black" -> <<Lit("@"), Lit("black")>>
      [] key = "@darkGrey" -> <<Lit("@"), Lit("dark"), Lit("Grey")>>
      [] key = "@mediumGrey" -> <<Lit("@"), Lit("medium"), Lit("Grey")>>
      [] key = "@mediumGreyLight" ->
            <<Lit("@"), Lit("medium"), Lit("Grey"), Lit("Light")>>
      [] key = "@lightGrey" -> <<Lit("@"), Lit("light"), Lit("Grey")>>
      [] key = "@white" -> <<Lit("@"), Lit("white")>>
      [] key = "@orange" -> <<Lit("@"), Lit("orange")>>
      [] key = "@themeDark" -> <<Lit("@"), Lit("theme"), Lit("Dark")>>
      [] key = "@themeMediumDark" ->
            <<Lit("@"), Lit("theme"), Lit("Medium"), Lit("Dark")>>
      [] key = "@themeMedium" -> <<Lit("@"), Lit("theme"), Lit("Medium")>>
      [] key = "@themeLight" -> <<Lit("@"), Lit("theme"), Lit("Light")>>
      [] key = "@baseFont" -> <<Lit("@"), Lit("base"), Lit("Font")>>
      [] key = "@extraBig" -> <<Lit("@"), Lit("extra"), Lit("Big")>>
      [] key = "@big" -> <<Lit("@"), Lit("big")>>
      [] key = "@bigBold" -> <<Lit("@"), Lit("big"), Lit("Bold")>>
      [] key = "@medium" -> <<Lit("@"), Lit("medium")>>
      [] key = "@mediumBold" -> <<Lit("@"), Lit("medium"), Lit("Bold")>>
      [] key = "@small" -> <<Lit("@"), Lit("small")>>
      [] key = "@smallLight" -> <<Lit("@"), Lit("small"), Lit("Light")>>

\* the keys in QMap order (QString operator<), as dict.keys() lists them
SortedKeys ==
    <<"@baseFont", "@big", "@bigBold", "@black", "@darkGrey", "@extraBig",
      "@green", "@lightGrey", "@medium", "@mediumBold", "@mediumGrey",
      "@mediumGreyLight", "@orange", "@red", "@small", "@smallLight",
      "@themeDark", "@themeLight", "@themeMedium", "@themeMediumDark",
      "@white", "@yellow">>

AllKeys == {SortedKeys[i] : i \in 1..Len(SortedKeys)}
AccentKeys == {"@themeDark", "@themeMediumDark", "@themeMedium", "@themeLight"}

\* MatchesAt without the \b: the key matches whatever follows it
MatchesAtNoBoundary(qss, i, k) ==
    /\ i + Len(k) - 1 <= Len(qss)
    /\ \A j \in 1..Len(k) : qss[i + j - 1] = k[j]

\* QRegularExpression(key % "\\b") matches at position i of qss
MatchesAt(qss, i, k) ==
    /\ i + Len(k) - 1 <= Len(qss)
    /\ \A j \in 1..Len(k) : qss[i + j - 1] = k[j]
    /\ \/ i + Len(k) > Len(qss)
       \/ ~StartsWithWordChar(qss[i + Len(k)])

\* qss.replace(QRegularExpression(key % "\\b"), value): every match, scanning
\* from the left, matches do not overlap
RECURSIVE ReplaceFrom(_, _, _, _)

\* the text from position i on, given the positions ms >= i of the matches:
\* the leftmost match is replaced and the scan goes on behind it
ReplaceLeftmost(qss, i, k, value, ms) ==
    IF ms = {} THEN SubSeq(qss, i, Len(qss))
    ELSE LET m == CHOOSE x \in ms : \A y \in ms : x <= y
         IN SubSeq(qss, i, m - 1) \o <<value>>
               \o ReplaceFrom(qss, m + Len(k), k, value)

ReplaceFrom(qss, i, k, value) ==
    ReplaceLeftmost(qss, i, k, value,
        {m \in i..Len(qss) : qss[m] = k[1] /\ MatchesAt(qss, m, k)})

\* a text without any match is left as it is
ReplaceAll(qss, k, value) ==
    IF \E i \in 1..Len(qss) : qss[i] = k[1] /\ MatchesAt(qss, i, k)
    THEN ReplaceFrom(qss, 1, k, value)
    ELSE qss

RegexReplace(qss, key, value) == ReplaceAll(qss, KeyText(key), value)

\* for (const QString& key : dict.keys()) qss.replace(..., dict[key])
RECURSIVE SubstituteFrom(_, _, _)
SubstituteFrom(qss, d, n) ==
    IF n > Len(SortedKeys) THEN qss
    ELSE IF SortedKeys[n] \in DOMAIN d
         THEN SubstituteFrom(RegexReplace(qss, SortedKeys[n], d[SortedKeys[n]]),
                             d, n + 1)
         ELSE SubstituteFrom(qss, d, n + 1)

SubstituteTokens(qss, d) == SubstituteFrom(qss, d, 1)

----------------------------------------------------------------------------
(* Theme folders and files *)

ThemeSubFolder == "themes/"
BuiltinThemePath == ":themes/default/"

\* what QStandardPaths::locate returns for themes/default, plus the separator
LocatedThemePath == "/appdata/themes/default/"

\* left % right, left + right: concatenation of a folder and a name
Concat(folder, filename) == <<folder, filename>>

getThemeName == "default"

getThemeFolder == IF themeInstalled THEN LocatedThemePath ELSE BuiltinThemePath

TemplateNames == {"chat.css", "plain.css", "theme.css", "missing.css"}
ImageNames == {"a.png", "b.png", "none.png"}
FileNames == TemplateNames \cup ImageNames

\* the files of the theme compiled into the binary
BuiltinFiles == {"chat.css", "plain.css", "theme.css", "b.png"}
\* the files of the installed theme folder when the program starts
InstalledFiles == {"chat.css", "plain.css", "theme.css", "a.png"}

Img(n) == <<"img", n>>

\* file.readAll() of a template
Content(filename) ==
    CASE filename = "chat.css" ->
            \* "color: @green;"
            <<Lit("color"), Lit(": "), Lit("@"), Lit("green"), Lit(";")>>
      [] filename = "plain.css" ->
            \* "color: @greenx;@;x"
            <<Lit("color"), Lit(": "), Lit("@"), Lit("green"), Lit("x"),
              Lit(";"), Lit("@"), Lit(";"), Lit("x")>>
      [] filename = "theme.css" ->
            \* "@themeMediumDark;@themeMedium @baseFont;@red;"
            \* "@getImagePath(a.png) @getImagePath(b.png)"
            \* "@themeDark;@themeLight"
            <<Lit("@"), Lit("theme"), Lit("Medium"), Lit("Dark"), Lit(";"),
              Lit("@"), Lit("theme"), Lit("Medium"), Lit(" "),
              Lit("@"), Lit("base"), Lit("Font"), Lit(";"),
              Lit("@"), Lit("red"), Lit(";"),
              Img("a.png"), Lit(" "), Img("b.png"),
              Lit("@"), Lit("theme"), Lit("Dark"), Lit(";"),
              Lit("@"), Lit("theme"), Lit("Light")>>
      [] OTHER -> <<Lit("x")>>

\* QFileInfo::exists(path)
Exists(path) ==
    IF path[1] = BuiltinThemePath
    THEN path[2] \in BuiltinFiles \cup {""}
    ELSE themeInstalled /\ path[2] \in themeFiles \cup {""}

\* QFile{path}.open(ReadOnly | Text)
CanOpen(path) ==
    IF path[2] = ""
    THEN path[1] = BuiltinThemePath /\ builtinOpens
    ELSE Exists(path)

\* file.readAll(): a directory that opens reads as empty
ReadAll(path) == IF path[2] = "" THEN <<>> ELSE Content(path[2])

\* the fonts callers pass as base font
BaseFonts == {[pixelSize |-> 12, weight |-> 50, family |-> "Sans"],
              [pixelSize |-> 14, weight |-> 50, family |-> "Mono"]}

----------------------------------------------------------------------------
(* The operations, as functions of the current state *)

Contains(list, x) == \E i \in 1..Len(list) : list[i] = x

getColor(entry) == palette[entry]

\* the dictionary that resolve builds when dict is empty
BuildDict(baseFont) ==
    [key \in AllKeys |->
        CASE key = "@green" -> name(getColor("Green"))
          [] key = "@yellow" -> name(getColor("Yellow"))
          [] key = "@red" -> name(getColor("Red"))
          [] key = "@black" -> name(getColor("Black"))
          [] key = "@darkGrey" -> name(getColor("DarkGrey"))
          [] key = "@mediumGrey" -> name(getColor("MediumGrey"))
          [] key = "@mediumGreyLight" -> name(getColor("MediumGreyLight"))
          [] key = "@lightGrey" -> name(getColor("LightGrey"))
          [] key = "@white" -> name(getColor("White"))
          [] key = "@orange" -> name(getColor("Orange"))
          [] key = "@themeDark" -> name(getColor("ThemeDark"))
          [] key = "@themeMediumDark" -> name(getColor("ThemeMediumDark"))
          [] key = "@themeMedium" -> name(getColor("ThemeMedium"))
          [] key = "@themeLight" -> name(getColor("ThemeLight"))
          [] key = "@baseFont" -> baseFontValue(baseFont)
          [] key = "@extraBig" -> qssifyFont(getFont("ExtraBig"))
          [] key = "@big" -> qssifyFont(getFont("Big"))
          [] key = "@bigBold" -> qssifyFont(getFont("BigBold"))
          [] key = "@medium" -> qssifyFont(getFont("Medium"))
          [] key = "@mediumBold" -> qssifyFont(getFont("MediumBold"))
          [] key = "@small" -> qssifyFont(getFont("Small"))
          [] key = "@smallLight" -> qssifyFont(getFont("SmallLight"))]

\* if (dict.isEmpty()) dict = {...}
DictAfterBuild(baseFont) ==
    IF DOMAIN dict = {} THEN BuildDict(baseFont) ELSE dict

\* re.globalMatch(qss): the @getImagePath(...) phrases of qss, in order
ImageMatches(qss) == SelectSeq(qss, LAMBDA a : a[1] = "img")

\* qss.replace(phrase, fullImagePath): every occurrence of the phrase
ReplacePhrase(qss, phrase, fullImagePath) ==
    [i \in 1..Len(qss) |->
        IF qss[i] = phrase THEN <<"path", fullImagePath>> ELSE qss[i]]

\* one pass of the while (i.hasNext()) loop, for match number n
RECURSIVE ImageLoop(_, _, _, _)
ImageLoop(matches, n, fullPath, acc) ==
    IF n > Len(matches) THEN acc
    ELSE
      LET phrase == matches[n]
          path == phrase[2]
          themeImagePath == Concat(getThemeFolder, path)
          checked == ~Contains(acc.cache, fullPath)
          found == Exists(themeImagePath)
          fullImagePath == IF checked /\ ~found
                           THEN Concat(BuiltinThemePath, path)
                           ELSE themeImagePath
      IN ImageLoop(matches, n + 1, fullPath,
            [qss |-> ReplacePhrase(acc.qss, phrase, fullImagePath),
             cache |-> IF checked /\ found
                       THEN Append(acc.cache, themeImagePath)
                       ELSE acc.cache,
             warnings |-> IF checked /\ ~found
                          THEN acc.warnings + 1
                          ELSE acc.warnings])

\* the result of resolve, from the outcome of the image loop
Resolved(r, d) ==
    [qss |-> r.qss, dict |-> d, cache |-> r.cache, warnings |-> r.warnings,
     opened |-> TRUE]

\* the @getImagePath() stage of resolve, on the text qss
ImageStage(qss, fullPath, d, openWarnings) ==
    Resolved(ImageLoop(ImageMatches(qss), 1, fullPath,
                       [qss |-> qss, cache |-> existingImagesCache,
                        warnings |-> openWarnings]), d)

\* resolve once the file at fullPath is read: the token stage, then the images
Substituted(fullPath, d, openWarnings) ==
    ImageStage(SubstituteTokens(ReadAll(fullPath), d), fullPath, d, openWarnings)

\* Unreadable with the dictionary built before the file is opened
UnreadableAfterBuild(baseFont, openWarnings) ==
    [qss |-> <<>>, dict |-> DictAfterBuild(baseFont),
     cache |-> existingImagesCache, warnings |-> openWarnings, opened |-> FALSE]

\* resolve when neither file opens: return {} before dict is looked at
Unreadable(baseFont, openWarnings) ==
    [qss |-> <<>>, dict |-> dict, cache |-> existingImagesCache,
     warnings |-> openWarnings, opened |-> FALSE]

\* Style::resolve: the text returned, the dictionary and the image-existence
\* cache it leaves, the warnings it logs, whether a template was read
resolve(filename, baseFont) ==
    LET themePath == getThemeFolder
        themeFile == Concat(themePath, filename)
        first == CanOpen(themeFile)
        fullPath == IF first THEN themeFile ELSE Concat(BuiltinThemePath, "")
        opened == CanOpen(fullPath)
        openWarnings == IF first THEN 0 ELSE IF opened THEN 1 ELSE 2
    IN IF ~opened
       THEN Unreadable(baseFont, openWarnings)
       ELSE Substituted(fullPath, DictAfterBuild(baseFont), openWarnings)

\* the key of the stylesheet cache
CacheKey(filename, baseFont) == <<Concat(getThemeFolder, filename), baseFont>>

\* CacheInsert that stores nothing
CacheInsertNothing(cache, cacheKey, newStylesheet) == cache

\* stylesheetsCache.insert(std::make_pair(cacheKey, newStylesheet))
CacheInsert(cache, cacheKey, newStylesheet) ==
    IF cacheKey \in DOMAIN cache THEN cache
    ELSE [k \in DOMAIN cache \cup {cacheKey} |->
            IF k = cacheKey THEN newStylesheet ELSE cache[k]]

\* getImagePath that also records the paths it did not find
getImagePathCachesMisses(filename) ==
    LET fullPath == Concat(getThemeFolder, filename)
        fallback == Concat(BuiltinThemePath, filename)
    IN IF Contains(existingImagesCache, fullPath)
       THEN [path |-> fullPath, cache |-> existingImagesCache, warnings |-> 0]
       ELSE IF Exists(fullPath)
       THEN [path |-> fullPath, cache |-> Append(existingImagesCache, fullPath),
             warnings |-> 0]
       ELSE IF Exists(fallback)
       THEN [path |-> fallback, cache |-> existingImagesCache, warnings |-> 1]
       ELSE [path |-> <<>>, cache |-> Append(existingImagesCache, fullPath),
             warnings |-> 2]

\* getImagePath that also records the path found in the built-in theme
getImagePathCachesFallback(filename) ==
    LET fullPath == Concat(getThemeFolder, filename)
        fallback == Concat(BuiltinThemePath, filename)
    IN IF Contains(existingImagesCache, fullPath)
       THEN [path |-> fullPath, cache |-> existingImagesCache, warnings |-> 0]
       ELSE IF Exists(fullPath)
       THEN [path |-> fullPath, cache |-> Append(existingImagesCache, fullPath),
             warnings |-> 0]
       ELSE IF Exists(fallback)
       THEN [path |-> fallback, cache |-> Append(existingImagesCache, fallback),
             warnings |-> 1]
       ELSE [path |-> <<>>, cache |-> existingImagesCache, warnings |-> 2]

\* getImagePath that asks the file system whatever the cache holds
getImagePathChecksFileFirst(filename) ==
    LET fullPath == Concat(getThemeFolder, filename)
        fallback == Concat(BuiltinThemePath, filename)
    IN IF Exists(fullPath)
       THEN [path |-> fullPath,
             cache |-> IF Contains(existingImagesCache, fullPath)
                       THEN existingImagesCache
                       ELSE Append(existingImagesCache, fullPath),
             warnings |-> 0]
       ELSE IF Exists(fallback)
       THEN [path |-> fallback, cache |-> existingImagesCache, warnings |-> 1]
       ELSE [path |-> <<>>, cache |-> existingImagesCache, warnings |-> 2]

\* Style::getImagePath: the path returned (<<>> when empty), the cache left,
\* the warnings logged
getImagePath(filename) ==
    LET fullPath == Concat(getThemeFolder, filename)
        fallback == Concat(BuiltinThemePath, filename)
    IN IF Contains(existingImagesCache, fullPath)
       THEN [path |-> fullPath, cache |-> existingImagesCache, warnings |-> 0]
       ELSE IF Exists(fullPath)
       THEN [path |-> fullPath, cache |-> Append(existingImagesCache, fullPath),
             warnings |-> 0]
       ELSE IF Exists(fallback)
       THEN [path |-> fallback, cache |-> existingImagesCache, warnings |-> 1]
       ELSE [path |-> <<>>, cache |-> existingImagesCache, warnings |-> 2]

\* AccentsFor whose reset forgets the ThemeLight slot
AccentsForResetThree(color) ==
    IF ~color.valid
    THEN [e \in AccentColors |->
            CASE e = "ThemeDark" -> QColorRgb(28, 28, 28)
              [] e = "ThemeMediumDark" -> QColorRgb(42, 42, 42)
              [] e = "ThemeMedium" -> QColorRgb(65, 65, 65)
              [] e = "ThemeLight" -> palette["ThemeLight"]]
    ELSE [e \in AccentColors |->
            CASE e = "ThemeDark" -> darker(color, 155)
              [] e = "ThemeMediumDark" -> darker(color, 135)
              [] e = "ThemeMedium" -> darker(color, 120)
              [] e = "ThemeLight" -> lighter(color, 110)]

\* AccentsFor that lightens the current ThemeLight slot instead of the seed
AccentsForFromPalette(color) ==
    IF ~color.valid
    THEN [e \in AccentColors |->
            CASE e = "ThemeDark" -> QColorRgb(28, 28, 28)
              [] e = "ThemeMediumDark" -> QColorRgb(42, 42, 42)
              [] e = "ThemeMedium" -> QColorRgb(65, 65, 65)
              [] e = "ThemeLight" -> QColorRgb(78, 78, 78)]
    ELSE [e \in AccentColors |->
            CASE e = "ThemeDark" -> darker(color, 155)
              [] e = "ThemeMediumDark" -> darker(color, 135)
              [] e = "ThemeMedium" -> darker(color, 120)
              [] e = "ThemeLight" -> lighter(palette["ThemeLight"], 110)]

\* the four accent slots that setThemeColor(const QColor&) writes
AccentsFor(color) ==
    IF ~color.valid
    THEN [e \in AccentColors |->
            CASE e = "ThemeDark" -> QColorRgb(28, 28, 28)
              [] e = "ThemeMediumDark" -> QColorRgb(42, 42, 42)
              [] e = "ThemeMedium" -> QColorRgb(65, 65, 65)
              [] e = "ThemeLight" -> QColorRgb(78, 78, 78)]
    ELSE [e \in AccentColors |->
            CASE e = "ThemeDark" -> darker(color, 155)
              [] e = "ThemeMediumDark" -> darker(color, 135)
              [] e = "ThemeMedium" -> darker(color, 120)
              [] e = "ThemeLight" -> lighter(color, 110)]

\* PaletteAfter that writes one slot too low: Orange instead of ThemeDark
PaletteAfterOffByOne(color) ==
    [e \in ColorPalette |->
        IF e = "Orange" THEN AccentsFor(color)["ThemeDark"]
        ELSE IF e \in AccentColors \ {"ThemeDark"} THEN AccentsFor(color)[e]
        ELSE palette[e]]

\* the palette after setThemeColor(const QColor&): only the accent slots change
PaletteAfter(color) ==
    [e \in ColorPalette |->
        IF e \in AccentColors THEN AccentsFor(color)[e] ELSE palette[e]]

\* DictAfter whose @themeLight entry is read from the palette before the
\* slots are written
DictAfterStaleLight(newPalette) ==
    [key \in DOMAIN dict \cup AccentKeys |->
        CASE key = "@themeDark" -> name(newPalette["ThemeDark"])
          [] key = "@themeMediumDark" -> name(newPalette["ThemeMediumDark"])
          [] key = "@themeMedium" -> name(newPalette["ThemeMedium"])
          [] key = "@themeLight" -> name(palette["ThemeLight"])
          [] OTHER -> dict[key]]

\* dict["@themeDark"] = getColor(ThemeDark).name(); ... on the new palette:
\* operator[] inserts the key when it is missing
DictAfter(newPalette) ==
    [key \in DOMAIN dict \cup AccentKeys |->
        CASE key = "@themeDark" -> name(newPalette["ThemeDark"])
          [] key = "@themeMediumDark" -> name(newPalette["ThemeMediumDark"])
          [] key = "@themeMedium" -> name(newPalette["ThemeMedium"])
          [] key = "@themeLight" -> name(newPalette["ThemeLight"])
          [] OTHER -> dict[key]]

\* IndexColor that reads the list one place too low
IndexColorOffByOne(color) ==
    IF color < 0 \/ color >= Len(themeColorColors)
    THEN QColorInvalid
    ELSE IF color = 0 THEN QColorInvalid ELSE themeColorColors[color]

\* the colour setThemeColor(int) passes on
IndexColor(color) ==
    IF color < 0 \/ color >= Len(themeColorColors)
    THEN QColorInvalid
    ELSE themeColorColors[color + 1]

\* Style::setThemeColor(const QColor&): the palette and dictionary it leaves
PaletteAndDict(newPalette) == [palette |-> newPalette, dict |-> DictAfter(newPalette)]

setThemeColor(color) == PaletteAndDict(PaletteAfter(color))

----------------------------------------------------------------------------
(* The state machine *)

EmptyMap == [k \in {} |-> <<>>]

NoFont == [pixelSize |-> 0, weight |-> 0, family |-> ""]

\* the record of a call; the fields a call does not use keep these values
Call(op) ==
    [op |-> op, file |-> "", font |-> NoFont, color |-> QColorInvalid,
     index |-> 0, entry |-> "", result |-> <<>>, hit |-> FALSE,
     resolved |-> FALSE, opened |-> FALSE, warnings |-> 0,
     repeat |-> FALSE, changed |-> FALSE]

\* sinceSet with the text returned for cacheKey, the first one kept
Remember(cacheKey, text) ==
    IF cacheKey \in DOMAIN sinceSet THEN sinceSet
    ELSE [k \in DOMAIN sinceSet \cup {cacheKey} |->
            IF k = cacheKey THEN text ELSE sinceSet[k]]

\* the colours callers pass to setThemeColor(const QColor&)
ColorInputs == {QColorInvalid, QColorRgb(255, 255, 255)}

\* the indices callers pass to setThemeColor(int)
IndexInputs == {-1, 0, 1, Len(themeColorColors)}

\* the names callers pass to getImagePath
ImagePathInputs == ImageNames \cup {"theme.css"}

\* the entries callers pass to getColor and to getFont
ColorInputsOfGetColor == {"Orange", "ThemeLight"}
FontInputs == {"ExtraBig"}

\* the templates callers pass to getStylesheet
StylesheetInputs == {"theme.css", "missing.css"}

\* the files the environment may remove from the installed theme folder
RemovableFiles == {"a.png"}

\* one more call, while the bound allows it
Called == calls < MaxCalls /\ calls' = calls + 1

Init ==
    /\ palette = paletteInit
    /\ dict = EmptyMap
    /\ stylesheetsCache = EmptyMap
    /\ existingImagesCache = <<>>
    /\ themeInstalled \in BOOLEAN
    /\ builtinOpens \in BOOLEAN
    /\ themeFiles = IF themeInstalled THEN InstalledFiles ELSE {}
    /\ last = Call("init")
    /\ sinceSet = EmptyMap
    /\ calls = 0

GetStylesheetHit(filename, baseFont, cacheKey) ==
       /\ Called
       /\ cacheKey \in DOMAIN stylesheetsCache
       /\ last' = [Call("getStylesheet") EXCEPT
                     !.file = filename, !.font = baseFont, !.hit = TRUE,
                     !.result = stylesheetsCache[cacheKey],
                     !.repeat = cacheKey \in DOMAIN sinceSet]
       /\ sinceSet' = Remember(cacheKey, stylesheetsCache[cacheKey])
       /\ UNCHANGED <<palette, dict, stylesheetsCache, existingImagesCache,
                      themeInstalled, builtinOpens, themeFiles>>

GetStylesheetMiss(filename, baseFont, cacheKey, r) ==
       /\ Called
       /\ cacheKey \notin DOMAIN stylesheetsCache
       /\ stylesheetsCache' = CacheInsert(stylesheetsCache, cacheKey, r.qss)
       /\ dict' = r.dict
       /\ existingImagesCache' = r.cache
       /\ last' = [Call("getStylesheet") EXCEPT
                     !.file = filename, !.font = baseFont, !.resolved = TRUE,
                     !.result = r.qss, !.opened = r.opened,
                     !.warnings = r.warnings,
                     !.repeat = cacheKey \in DOMAIN sinceSet]
       /\ sinceSet' = Remember(cacheKey, r.qss)
       /\ UNCHANGED <<palette, themeInstalled, builtinOpens, themeFiles>>

GetStylesheet(filename, baseFont) ==
    \/ GetStylesheetHit(filename, baseFont, CacheKey(filename, baseFont))
    \/ GetStylesheetMiss(filename, baseFont, CacheKey(filename, baseFont),
                         resolve(filename, baseFont))

ResolveCall(filename, baseFont, r) ==
       /\ Called
       /\ dict' = r.dict
       /\ existingImagesCache' = r.cache
       /\ last' = [Call("resolve") EXCEPT
                     !.file = filename, !.font = baseFont, !.resolved = TRUE,
                     !.result = r.qss, !.opened = r.opened,
                     !.warnings = r.warnings]
       /\ UNCHANGED <<palette, stylesheetsCache, themeInstalled, builtinOpens,
                      themeFiles, sinceSet>>

Resolve(filename, baseFont) ==
    ResolveCall(filename, baseFont, resolve(filename, baseFont))

GetImagePathCall(filename, r) ==
       /\ Called
       /\ existingImagesCache' = r.cache
       /\ last' = [Call("getImagePath") EXCEPT
                     !.file = filename, !.result = r.path,
                     !.warnings = r.warnings]
       /\ UNCHANGED <<palette, dict, stylesheetsCache, themeInstalled,
                      builtinOpens, themeFiles, sinceSet>>

GetImagePath(filename) == GetImagePathCall(filename, getImagePath(filename))

GetColor(entry) ==
    /\ Called
    /\ last' = [Call("getColor") EXCEPT
                  !.entry = entry, !.result = <<getColor(entry)>>]
    /\ UNCHANGED <<palette, dict, stylesheetsCache, existingImagesCache,
                   themeInstalled, builtinOpens, themeFiles, sinceSet>>

GetFont(font) ==
    /\ Called
    /\ last' = [Call("getFont") EXCEPT
                  !.entry = font, !.result = <<getFont(font)>>]
    /\ UNCHANGED <<palette, dict, stylesheetsCache, existingImagesCache,
                   themeInstalled, builtinOpens, themeFiles, sinceSet>>

\* setThemeColor(int) without stylesheetsCache.clear()
SetThemeColorIndexKeepsCache(color, r) ==
       /\ Called
       /\ palette' = r.palette
       /\ dict' = r.dict
       /\ last' = [Call("setThemeColorIndex") EXCEPT
                     !.index = color, !.changed = r.palette # palette]
       /\ sinceSet' = EmptyMap
       /\ UNCHANGED <<stylesheetsCache, existingImagesCache, themeInstalled,
                      builtinOpens, themeFiles>>

\* Style::setThemeColor(int)
SetThemeColorIndexCall(color, r) ==
       /\ Called
       /\ stylesheetsCache' = EmptyMap
       /\ palette' = r.palette
       /\ dict' = r.dict
       /\ last' = [Call("setThemeColorIndex") EXCEPT
                     !.index = color, !.changed = r.palette # palette]
       /\ sinceSet' = EmptyMap
       /\ UNCHANGED <<existingImagesCache, themeInstalled, builtinOpens,
                      themeFiles>>

SetThemeColorIndex(color) ==
    SetThemeColorIndexCall(color, setThemeColor(IndexColor(color)))

\* setThemeColor(const QColor&) that also empties the image-existence cache
SetThemeColorColorClearsImages(color, r) ==
       /\ Called
       /\ palette' = r.palette
       /\ dict' = r.dict
       /\ existingImagesCache' = <<>>
       /\ last' = [Call("setThemeColorColor") EXCEPT
                     !.color = color, !.changed = r.palette # palette]
       /\ sinceSet' = EmptyMap
       /\ UNCHANGED <<stylesheetsCache, themeInstalled, builtinOpens,
                      themeFiles>>

\* Style::setThemeColor(const QColor&)
SetThemeColorColorCall(color, r) ==
       /\ Called
       /\ palette' = r.palette
       /\ dict' = r.dict
       /\ last' = [Call("setThemeColorColor") EXCEPT
                     !.color = color, !.changed = r.palette # palette]
       /\ sinceSet' = EmptyMap
       /\ UNCHANGED <<stylesheetsCache, existingImagesCache, themeInstalled,
                      builtinOpens, themeFiles>>

SetThemeColorColor(color) == SetThemeColorColorCall(color, setThemeColor(color))

\* the environment removes a file from the installed theme folder
RemoveFile(filename) ==
    /\ Called
    /\ themeInstalled
    /\ filename \in themeFiles
    /\ themeFiles' = themeFiles \ {filename}
    /\ last' = [Call("removeFile") EXCEPT !.file = filename]
    /\ UNCHANGED <<palette, dict, stylesheetsCache, existingImagesCache,
                   themeInstalled, builtinOpens, sinceSet>>

Next ==
    \/ \E f \in StylesheetInputs, b \in BaseFonts : GetStylesheet(f, b)
    \/ \E f \in TemplateNames, b \in BaseFonts : Resolve(f, b)
    \/ \E f \in ImagePathInputs : GetImagePath(f)
    \/ \E e \in ColorInputsOfGetColor : GetColor(e)
    \/ \E f \in FontInputs : GetFont(f)
    \/ \E i \in IndexInputs : SetThemeColorIndex(i)
    \/ \E c \in ColorInputs : SetThemeColorColor(c)
    \/ \E f \in RemovableFiles : RemoveFile(f)

Spec == Init /\ [][Next]_vars

----------------------------------------------------------------------------
(* Properties *)

SetThemeColorOps == {"setThemeColorIndex", "setThemeColorColor"}

\* the path in the theme folder that the last call named
LastThemePath == Concat(getThemeFolder, last.file)

\* C1: immediately after any call of setThemeColor, in the index form or in
\* the colour form, the stylesheet cache holds no entry.
C1_SetThemeColorClearsCache ==
    last.op \in SetThemeColorOps => DOMAIN stylesheetsCache = {}

\* "color: #6bc260;"
ChatResolved ==
    <<Lit("color"), Lit(": "), <<"hex", <<107, 194, 96>>>>, Lit(";")>>

\* C2: once resolve has read a template, the dictionary holds an entry for
\* every token of the fixed set, and the template "color: @green;" resolves
\* to "color: #6bc260;", whatever calls came before.
C2_ResolveSubstitutesEveryToken ==
    (last.op = "resolve" /\ last.opened) =>
        /\ DOMAIN dict = AllKeys
        /\ (last.file = "chat.css" => last.result = ChatResolved)

\* C3: a getStylesheet call whose arguments were already passed to
\* getStylesheet since the last setThemeColor returns the text returned then
\* and is a cache hit: resolve is not invoked, the dictionary and the
\* image-existence cache stay as they are.
C3_RepeatedGetStylesheetIsHit ==
    [][(last'.op = "getStylesheet" /\ last'.repeat) =>
          /\ last'.hit
          /\ ~last'.resolved
          /\ last'.result = sinceSet[<<Concat(getThemeFolder, last'.file),
                                       last'.font>>]
          /\ dict' = dict
          /\ existingImagesCache' = existingImagesCache]_vars

\* C3 witness: a repeated getStylesheet call of a readable template
C3_Witness ==
    /\ last.op = "getStylesheet"
    /\ last.repeat
    /\ last.hit
    /\ last.result # <<>>

\* C4 as stated: getImagePath of a file that exists in the theme folder
\* returns themeFolder + filename; of a file that exists neither there nor in
\* the built-in folder it returns empty and leaves the cache as it was.
C4_GetImagePathAsStated ==
    [][last'.op = "getImagePath" =>
          LET themed == Concat(getThemeFolder, last'.file)
              builtin == Concat(BuiltinThemePath, last'.file)
          IN /\ Exists(themed) => last'.result = themed
             /\ (~Exists(themed) /\ ~Exists(builtin)) =>
                   /\ last'.result = <<>>
                   /\ existingImagesCache' = existingImagesCache]_vars

\* C4 amended: getImagePath of a file that exists in the theme folder returns
\* themeFolder + filename; of a file that exists neither there nor in the
\* built-in folder, and whose theme path is not in the image-existence cache,
\* it returns empty and leaves the cache as it was.
C4_GetImagePath ==
    [][last'.op = "getImagePath" =>
          LET themed == Concat(getThemeFolder, last'.file)
              builtin == Concat(BuiltinThemePath, last'.file)
          IN /\ Exists(themed) => last'.result = themed
             /\ (/\ ~Exists(themed)
                 /\ ~Exists(builtin)
                 /\ ~Contains(existingImagesCache, themed)) =>
                   /\ last'.result = <<>>
                   /\ existingImagesCache' = existingImagesCache]_vars

\* C4 witness: getImagePath found the file in neither folder
C4_Witness ==
    /\ last.op = "getImagePath"
    /\ ~Exists(LastThemePath)
    /\ ~Exists(Concat(BuiltinThemePath, last.file))
    /\ ~Contains(existingImagesCache, LastThemePath)
    /\ last.result = <<>>

\* C5: when resolve can open neither the template in the theme folder nor
\* the built-in fallback path, it logs two warnings, returns empty text and
\* leaves the palette, the dictionary and the image-existence cache unchanged.
C5_UnreadableTemplate ==
    [][(/\ last'.op = "resolve"
        /\ ~CanOpen(Concat(getThemeFolder, last'.file))
        /\ ~CanOpen(Concat(BuiltinThemePath, ""))) =>
          /\ last'.result = <<>>
          /\ last'.warnings = 2
          /\ palette' = palette
          /\ dict' = dict
          /\ existingImagesCache' = existingImagesCache]_vars

\* C5 witness: resolve of a template that cannot be read from either place
C5_Witness ==
    /\ last.op = "resolve"
    /\ ~CanOpen(LastThemePath)
    /\ ~CanOpen(Concat(BuiltinThemePath, ""))
    /\ last.result = <<>>
    /\ last.warnings = 2

\* the accent slots of the palette
Accents == [e \in AccentColors |-> palette[e]]

\* C6: setThemeColor(invalid colour) leaves #1c1c1c, #2a2a2a, #414141 and
\* #4e4e4e in the four accent slots, whatever they held before.
C6_InvalidColorResets ==
    (last.op = "setThemeColorColor" /\ ~last.color.valid) =>
        /\ palette["ThemeDark"] = QColorRgb(28, 28, 28)
        /\ palette["ThemeMediumDark"] = QColorRgb(42, 42, 42)
        /\ palette["ThemeMedium"] = QColorRgb(65, 65, 65)
        /\ palette["ThemeLight"] = QColorRgb(78, 78, 78)

\* C6 witness: a reset that changed the accent slots
C6_Witness ==
    /\ last.op = "setThemeColorColor"
    /\ ~last.color.valid
    /\ last.changed

\* C7: after setThemeColor(C) with a valid C the four accent slots are
\* C darker 155, darker 135, darker 120 and lighter 110: a function of C
\* alone, whatever the palette held before.
C7_AccentsDependOnSeedOnly ==
    (last.op = "setThemeColorColor" /\ last.color.valid) =>
        /\ palette["ThemeDark"] = darker(last.color, 155)
        /\ palette["ThemeMediumDark"] = darker(last.color, 135)
        /\ palette["ThemeMedium"] = darker(last.color, 120)
        /\ palette["ThemeLight"] = lighter(last.color, 110)

\* C7 witness: setThemeColor(C) called when the accents were already those
\* of C, after an earlier call had moved them away from the defaults
C7_Witness ==
    /\ last.op = "setThemeColorColor"
    /\ last.color.valid
    /\ ~last.changed
    /\ Accents # DefaultAccents

\* C8: getColor returns the current slot; no call other than setThemeColor
\* changes any of the fourteen slots, and setThemeColor changes none of the
\* ten static colours.
C8_PaletteFrame ==
    [][/\ last'.op \notin SetThemeColorOps => palette' = palette
       /\ \A e \in StaticColors : palette'[e] = palette[e]
       /\ last'.op = "getColor" => last'.result = <<palette[last'.entry]>>]_vars

\* C8 witness: getColor of an accent slot that a setThemeColor call changed
C8_Witness ==
    /\ last.op = "getColor"
    /\ last.entry = "ThemeLight"
    /\ last.result # <<QColorRgb(78, 78, 78)>>
    /\ last.result = <<palette["ThemeLight"]>>

\* the colour the index stands for: the preset, invalid when out of range
PresetOf(index) ==
    IF index \in 0..(Len(themeColorColors) - 1)
    THEN themeColorColors[index + 1]
    ELSE QColorInvalid

\* C9: setThemeColor(index) leaves the palette and the dictionary that
\* setThemeColor(colour) leaves for the preset of that index, and for the
\* invalid colour when the index is out of range: the accents are reset.
C9_IndexForm ==
    [][last'.op = "setThemeColorIndex" =>
          /\ palette' = setThemeColor(PresetOf(last'.index)).palette
          /\ dict' = setThemeColor(PresetOf(last'.index)).dict
          /\ (last'.index \notin 1..(Len(themeColorColors) - 1) =>
                /\ \A e \in AccentColors : palette'[e] = DefaultAccents[e]
                /\ dict'["@themeDark"] = <<"hex", <<28, 28, 28>>>>
                /\ dict'["@themeMediumDark"] = <<"hex", <<42, 42, 42>>>>
                /\ dict'["@themeMedium"] = <<"hex", <<65, 65, 65>>>>
                /\ dict'["@themeLight"] = <<"hex", <<78, 78, 78>>>>)]_vars

\* C9 witness: an out-of-range index reset accents that were not the defaults
C9_Witness ==
    /\ last.op = "setThemeColorIndex"
    /\ last.index = Len(themeColorColors)
    /\ last.changed
    /\ Accents = DefaultAccents

\* a run of word characters
IsWord(a) == a[1] = "lit" /\ a[2] \in WordPieces

\* the text holds a recognised token followed by a word boundary
ContainsToken(text) ==
    \E key \in AllKeys, i \in 1..Len(text) :
        LET k == KeyText(key)
        IN /\ i + Len(k) - 1 <= Len(text)
           /\ SubSeq(text, i, i + Len(k) - 1) = k
           /\ (i + Len(k) <= Len(text) => ~IsWord(text[i + Len(k)]))

ContainsImagePhrase(text) == \E i \in 1..Len(text) : text[i][1] = "img"

\* the content of the file that the last resolve read
LastSource ==
    IF CanOpen(LastThemePath) THEN ReadAll(LastThemePath)
    ELSE ReadAll(Concat(BuiltinThemePath, ""))

\* C10: a readable template with no recognised token and no
\* @getImagePath(...) phrase is returned by resolve as it was read.
C10_PlainTemplateUnchanged ==
    (/\ last.op = "resolve"
     /\ last.opened
     /\ ~ContainsToken(LastSource)
     /\ ~ContainsImagePhrase(LastSource)) => last.result = LastSource

\* C10 witness: resolve of plain.css with the whole dictionary in place
C10_Witness ==
    /\ last.op = "resolve"
    /\ last.file = "plain.css"
    /\ last.opened
    /\ DOMAIN dict = AllKeys
    /\ ~ContainsToken(LastSource)
    /\ Len(LastSource) > 0
    /\ last.result = LastSource

\* the positions of text where the token key stands before a word boundary
TokenPositions(text, key) ==
    {i \in 1..Len(text) :
        /\ i + Len(KeyText(key)) - 1 <= Len(text)
        /\ SubSeq(text, i, i + Len(KeyText(key)) - 1) = KeyText(key)
        /\ (i + Len(KeyText(key)) <= Len(text) =>
               ~IsWord(text[i + Len(KeyText(key))]))}

\* the positions of text that hold the atom a
AtomPositions(text, a) == {i \in 1..Len(text) : text[i] = a}

\* the last call ran resolve and resolve read a template
LastResolved == last.resolved /\ last.opened

\* C11: in every call of resolve that reads a template holding @baseFont,
\* the token is replaced by the value of the base font passed to that call:
\* the text holds that value and no other base font value.
C11_BaseFontOfTheCall ==
    (LastResolved /\ TokenPositions(LastSource, "@baseFont") # {}) =>
        /\ TokenPositions(last.result, "@baseFont") = {}
        /\ AtomPositions(last.result, baseFontValue(last.font)) # {}
        /\ \A i \in 1..Len(last.result) :
              last.result[i][1] = "base" =>
                  last.result[i] = baseFontValue(last.font)

\* the path that an existence check of themeFolder + arg selects
CheckedImagePath(arg) ==
    IF Exists(Concat(getThemeFolder, arg))
    THEN Concat(getThemeFolder, arg)
    ELSE Concat(BuiltinThemePath, arg)

\* C12: every @getImagePath(arg) phrase of a template that resolve reads is
\* replaced by themeFolder + arg when that file exists and by
\* builtinThemePath + arg when it is missing, whatever the image-existence
\* cache holds.
C12_ImagePhraseByExistence ==
    LastResolved =>
        /\ ~ContainsImagePhrase(last.result)
        /\ \A i \in 1..Len(LastSource) :
              LastSource[i][1] = "img" =>
                  AtomPositions(last.result,
                      <<"path", CheckedImagePath(LastSource[i][2])>>) # {}
        /\ \A j \in 1..Len(last.result) :
              last.result[j][1] = "path" =>
                  \E i \in 1..Len(LastSource) :
                      /\ LastSource[i][1] = "img"
                      /\ last.result[j][2] = CheckedImagePath(LastSource[i][2])

\* the palette slot an accent token is named after
AccentSlot(key) ==
    CASE key = "@themeDark" -> "ThemeDark"
      [] key = "@themeMediumDark" -> "ThemeMediumDark"
      [] key = "@themeMedium" -> "ThemeMedium"
      [] key = "@themeLight" -> "ThemeLight"

\* the hex text of a colour, "#rrggbb"
Hex(c) == <<"hex", <<c.r, c.g, c.b>>>>

\* resolve can read a template for filename: the theme file or the fallback
Readable(filename) ==
    CanOpen(Concat(getThemeFolder, filename))
        \/ CanOpen(Concat(BuiltinThemePath, ""))

\* C13: setThemeColor(index) leaves the stylesheet cache empty, for every
\* index; the getStylesheet call that follows it, for a readable template,
\* is a miss whose text holds no accent token, holds the hex value of the
\* new accent slot for every accent token of the template, and holds no hex
\* value other than those of the current palette.
C13_IndexFormThenFreshStylesheet ==
    [][/\ last'.op = "setThemeColorIndex" => DOMAIN stylesheetsCache' = {}
       /\ (/\ last.op = "setThemeColorIndex"
           /\ last'.op = "getStylesheet"
           /\ Readable(last'.file)) =>
              /\ ~last'.hit
              /\ last'.resolved
              /\ last'.opened
              /\ \A key \in AccentKeys :
                    /\ TokenPositions(last'.result, key) = {}
                    /\ TokenPositions(LastSource', key) # {} =>
                          AtomPositions(last'.result,
                                        Hex(palette'[AccentSlot(key)])) # {}
              /\ \A i \in 1..Len(last'.result) :
                    last'.result[i][1] = "hex" =>
                        \E e \in ColorPalette :
                            last'.result[i] = Hex(palette'[e])]_vars

\* C13 witness: a template was resolved with the whole dictionary, then
\* setThemeColor(1) set the accents of the first preset, then getStylesheet
\* resolved theme.css again
C13_Witness ==
    /\ calls = 3
    /\ last.op = "getStylesheet"
    /\ last.file = "theme.css"
    /\ last.resolved
    /\ themeInstalled
    /\ DOMAIN dict = AllKeys
    /\ Accents = AccentsFor(PresetOf(1))
    /\ AtomPositions(last.result, Hex(palette["ThemeLight"])) # {}
    /\ DOMAIN stylesheetsCache = {CacheKey(last.file, last.font)}

\* C14: every path a step adds to the image-existence cache is
\* themeFolder + name for a file that exists in the theme folder when the
\* step is taken, and a getImagePath call that returns the path of the
\* built-in fallback adds nothing; so every entry of the cache lies in the
\* theme folder.
C14_OnlyThemeFolderHitsCached ==
    [][/\ \A i \in (Len(existingImagesCache) + 1)..Len(existingImagesCache') :
             /\ existingImagesCache'[i][1] = getThemeFolder
             /\ Exists(existingImagesCache'[i])
       /\ \A i \in 1..Len(existingImagesCache') :
             existingImagesCache'[i][1] = getThemeFolder
       /\ (/\ last'.op = "getImagePath"
           /\ getThemeFolder # BuiltinThemePath
           /\ last'.result = Concat(BuiltinThemePath, last'.file)) =>
              existingImagesCache' = existingImagesCache
       /\ (last'.resolved /\ getThemeFolder # BuiltinThemePath) =>
              \A j \in 1..Len(last'.result) :
                  (/\ last'.result[j][1] = "path"
                   /\ last'.result[j][2][1] = BuiltinThemePath) =>
                      ~Contains(existingImagesCache', last'.result[j][2])]_vars

\* C14 witness: with a theme installed and a path already cached,
\* getImagePath found b.png only in the built-in theme and returned that
\* path, which is not in the cache
C14_Witness ==
    /\ themeInstalled
    /\ last.op = "getImagePath"
    /\ last.file = "b.png"
    /\ last.result = Concat(BuiltinThemePath, "b.png")
    /\ last.warnings = 1
    /\ Len(existingImagesCache) > 0
    /\ ~Contains(existingImagesCache, last.result)

\* C15: no step removes a path from the image-existence cache: the list
\* before a step is a prefix of the list after it, so a path that is in the
\* cache stays in it.
C15_ImageCacheAppendOnly ==
    [][/\ Len(existingImagesCache') >= Len(existingImagesCache)
       /\ SubSeq(existingImagesCache', 1, Len(existingImagesCache))
             = existingImagesCache
       /\ \A i \in 1..Len(existingImagesCache) :
             Contains(existingImagesCache', existingImagesCache[i])]_vars

\* C15 witness: the colour form of setThemeColor ran with two paths in the
\* cache and both are still there
C15_Witness ==
    /\ last.op = "setThemeColorColor"
    /\ last.changed
    /\ Len(existingImagesCache) = 2
    /\ Contains(existingImagesCache, Concat(getThemeFolder, "a.png"))

\* C16: a getImagePath(filename) call made while themeFolder + filename is
\* in the image-existence cache returns that path, logs nothing and leaves
\* the cache alone, whether or not the file still exists; a call that
\* returns the theme-folder path leaves it in the cache, and no step takes
\* a path out of the cache: every later call returns the same path.
C16_CachedPathReturned ==
    [][/\ (/\ last'.op = "getImagePath"
           /\ Contains(existingImagesCache,
                        Concat(getThemeFolder, last'.file))) =>
              /\ last'.result = Concat(getThemeFolder, last'.file)
              /\ last'.warnings = 0
              /\ existingImagesCache' = existingImagesCache
       /\ (/\ last'.op = "getImagePath"
           /\ last'.result = Concat(getThemeFolder, last'.file)) =>
              Contains(existingImagesCache',
                       Concat(getThemeFolder, last'.file))
       /\ \A p \in {Concat(getThemeFolder, n) : n \in FileNames} :
             Contains(existingImagesCache, p) =>
                 Contains(existingImagesCache', p)]_vars

\* C16 witness: getImagePath returned the theme-folder path of a file that
\* was cached by an earlier call and has been removed since
C16_Witness ==
    /\ themeInstalled
    /\ last.op = "getImagePath"
    /\ last.file = "a.png"
    /\ last.result = Concat(getThemeFolder, "a.png")
    /\ ~Exists(last.result)
    /\ ~Exists(Concat(BuiltinThemePath, "a.png"))
    /\ existingImagesCache = <<last.result>>

\* the stored text is the text of the outcome r of resolve
StoredIs(text, r) == text = r.qss

\* C18: while the files are those the program started with, every text of
\* the stylesheet cache, stored under (themeFolder + f, font), is the text
\* that resolve(f, font) returns in the same state.
C18_CacheCoherence ==
    (themeInstalled => themeFiles = InstalledFiles) =>
        \A key \in DOMAIN stylesheetsCache :
            StoredIs(stylesheetsCache[key], resolve(key[1][2], key[2]))

\* the tokens of the static colours and the palette slot of a colour token
StaticKeys ==
    {"@green", "@yellow", "@red", "@black", "@darkGrey", "@mediumGrey",
     "@mediumGreyLight", "@lightGrey", "@white", "@orange"}

ColorSlot(key) ==
    CASE key = "@green" -> "Green"
      [] key = "@yellow" -> "Yellow"
      [] key = "@red" -> "Red"
      [] key = "@black" -> "Black"
      [] key = "@darkGrey" -> "DarkGrey"
      [] key = "@mediumGrey" -> "MediumGrey"
      [] key = "@mediumGreyLight" -> "MediumGreyLight"
      [] key = "@lightGrey" -> "LightGrey"
      [] key = "@white" -> "White"
      [] key = "@orange" -> "Orange"
      [] OTHER -> AccentSlot(key)

\* C19: after every step each colour token of the dictionary maps to the
\* hex text of the palette slot of the same name; after setThemeColor
\* (either form) the four accent entries are there and are the hex texts
\* of the four accent slots; a static colour entry, once in the dictionary,
\* stays and keeps its value.
C19_DictMatchesPalette ==
    [][/\ \A key \in DOMAIN dict' \cap (StaticKeys \cup AccentKeys) :
             dict'[key] = Hex(palette'[ColorSlot(key)])
       /\ last'.op \in SetThemeColorOps =>
             /\ AccentKeys \subseteq DOMAIN dict'
             /\ \A key \in AccentKeys :
                   dict'[key] = Hex(palette'[AccentSlot(key)])
       /\ \A key \in DOMAIN dict \cap StaticKeys :
             key \in DOMAIN dict' /\ dict'[key] = dict[key]]_vars

\* C19 witness: with the whole dictionary built, setThemeColor changed the
\* accents to colours other than the defaults
C19_Witness ==
    /\ DOMAIN dict = AllKeys
    /\ last.op \in SetThemeColorOps
    /\ last.changed
    /\ Accents # DefaultAccents
    /\ dict["@themeLight"] = Hex(palette["ThemeLight"])
    /\ dict["@red"] = Hex(palette["Red"])

\* C20: the image-existence cache holds each path at most once.
C20_ImageCacheIsSet ==
    \A i, j \in 1..Len(existingImagesCache) :
        existingImagesCache[i] = existingImagesCache[j] => i = j

----------------------------------------------------------------------------
(* The token substitution as a function of the order of the keys *)

\* the longest template, in tokens and separators
MaxItems == 3

\* the loop of resolve over the keys in the given order
RECURSIVE SubstituteInOrder(_, _, _, _)
SubstituteInOrder(qss, d, order, n) ==
    IF n > Len(order) THEN qss
    ELSE IF order[n] \in DOMAIN d
         THEN SubstituteInOrder(RegexReplace(qss, order[n], d[order[n]]),
                                d, order, n + 1)
         ELSE SubstituteInOrder(qss, d, order, n + 1)

\* the tokens the templates are built from: a colour, a font, and a font
\* and a colour whose names start with the name of another token
OrderKeys == {"@red", "@big", "@bigBold", "@themeMedium", "@themeMediumDark"}

\* the separator of the templates
Separator == <<Lit(";")>>

\* what a template is built from
Items == {KeyText(key) : key \in OrderKeys} \cup {Separator}

\* the concatenation of the items of a sequence of texts
RECURSIVE Flatten(_)
Flatten(items) ==
    IF items = <<>> THEN <<>> ELSE Head(items) \o Flatten(Tail(items))

\* the templates of at most MaxItems items
Templates ==
    {Flatten(items) : items \in UNION {[1..n -> Items] : n \in 0..MaxItems}}

\* the orders in which the keys of the dictionary can be listed: the keys
\* the templates hold in every order, the other keys after them
OtherKeys == SelectSeq(SortedKeys, LAMBDA key : key \notin OrderKeys)

KeyOrders ==
    {order \o OtherKeys :
        order \in {o \in [1..Cardinality(OrderKeys) -> OrderKeys] :
                      \A key \in OrderKeys : \E i \in DOMAIN o : o[i] = key}}

InitOrder ==
    /\ palette = paletteInit
    /\ dict = BuildDict(appFont(defSize, Normal))
    /\ stylesheetsCache = EmptyMap
    /\ existingImagesCache = <<>>
    /\ themeInstalled = TRUE
    /\ builtinOpens = TRUE
    /\ themeFiles = InstalledFiles
    /\ last \in {[op |-> "template", source |-> t, order |-> <<>>,
                    result |-> t] : t \in Templates}
    /\ sinceSet = EmptyMap
    /\ calls = 0

\* the token stage of resolve on the template, with the keys in some order
SubstituteInSomeOrder(order) ==
    /\ last.op = "template"
    /\ last' = [op |-> "substitute", source |-> last.source, order |-> order,
                result |-> SubstituteInOrder(last.source, dict, order, 1)]
    /\ calls' = calls + 1
    /\ UNCHANGED <<palette, dict, stylesheetsCache, existingImagesCache,
                   themeInstalled, builtinOpens, themeFiles, sinceSet>>

NextOrder == \E order \in KeyOrders : SubstituteInSomeOrder(order)

SpecOrder == InitOrder /\ [][NextOrder]_vars

\* C17: the order of the keys does not matter: substituting the tokens of a
\* template in any order of the keys gives the text that the order of
\* resolve gives.
C17_OrderDoesNotMatter ==
    last.op = "substitute" =>
        last.result = SubstituteTokens(last.source, dict)

====
